---- MODULE Spec2Model ----
(***************************************************************************)
(* Model of the tool-orchestration loop (src/src/core/chat.py), the tool   *)
(* dispatcher (src/src/core/tools.py), the message helpers                 *)
(* (src/src/core/claude.py) and the capability client's connection scope   *)
(* (src/src/mcp_client.py, src/src/app.py).                                *)
(*                                                                         *)
(* A step of the model is the code that runs between two suspension points *)
(* (await) of a coroutine: the return, or the raise, of one round trip to  *)
(* a capability server or to the gateway, followed by the synchronous code *)
(* up to the next round trip.                                              *)
(***************************************************************************)
EXTENDS Integers, Sequences, FiniteSets, TLC

VARIABLES
    messages,   \* Chat.messages of every Chat object: the session history
    doc_client, \* Chat.doc_client of every Chat object: TRUE when it is not None
    clients,    \* Chat.clients of every Chat object: the keys, in registration order
    frame,      \* the locals of every run() coroutine, with its position
    idCtr,      \* gateway side: the next fresh tool-use id
    stop,       \* history variable: the stop reason of the latest response to each run()
    seen,       \* history variable: the catalogs returned while resolving the latest request
    calls,      \* history variable: the call_tool invocations of the latest dispatch round
    mcp,        \* the fields of every MCPClient object of a connection scope
    scope       \* the position of every `async with MCPClient(...)` scope

vars == <<messages, doc_client, clients, frame, idCtr, stop, seen, calls, mcp, scope>>
chatVars == <<messages, doc_client, clients, frame, idCtr, stop, seen, calls>>
scopeVars == <<mcp, scope>>

---------------------------------------------------------------------------
(* Bounds of the model *)

\* most messages a history holds in the model
MaxHist == 4
\* most content blocks of one gateway response
MaxBlocks == 2
\* number of `async with MCPClient(...)` scopes opened
NumScopes == 3

\* run() coroutines (Tasks) and Chat objects (Sessions)
Tasks == {1, 2}
Sessions == {1, 2}
\* the tasks that act in the sequential specification
SeqTasks == {1}
\* the clients dictionaries a Chat is constructed with, as the keys in
\* registration (dict) order: the one of app.py, and one with a second server; a
\* client is named by its position in that order
AppClients == <<"doc">>
ClientDicts == {AppClients, <<"doc", "files">>}
\* the clients of Chat s
NumClients(s) == Len(clients[s])
Clients(s) == 1..NumClients(s)

\* the tool names a server may list; the names the gateway asks for
ToolNames == {"a", "b"}
RequestNames == {"a"}
Texts == {"T1"}
StopReasons == {"tool_use", "end_turn", "max_tokens"}
\* a types.Tool of a server's catalog
Tool(n) == [name |-> n, description |-> "about " \o n, inputSchema |-> "{}"]
\* the catalogs a list_tools round trip may return
Catalogs == {<<>>, <<Tool("a")>>, <<Tool("b"), Tool("a")>>}
\* messages of the errors a round trip may raise
ErrorMessages == {"boom"}
\* what a round trip may raise that is not an Exception: the cancellation of the
\* task that awaits it, an interrupt
AbortClasses == {"CancelledError", "KeyboardInterrupt"}

---------------------------------------------------------------------------
(* Sequences *)

Range(s) == {s[i] : i \in DOMAIN s}
IsPrefix(s, t) == Len(s) <= Len(t) /\ SubSeq(t, 1, Len(s)) = s
SelectIdx(s, Test(_)) == {i \in DOMAIN s : Test(s[i])}

RECURSIVE JoinWith(_, _)
\* sep.join(strs)
JoinWith(strs, sep) ==
    IF strs = <<>> THEN ""
    ELSE IF Len(strs) = 1 THEN strs[1]
    ELSE strs[1] \o sep \o JoinWith(Tail(strs), sep)

RECURSIVE Concat(_)
\* "".join(strs)
Concat(strs) == IF strs = <<>> THEN "" ELSE strs[1] \o Concat(Tail(strs))

---------------------------------------------------------------------------
(* Content blocks and messages *)

TextBlock(text) == [type |-> "text", text |-> text]
ToolUseBlock(id, name) == [type |-> "tool_use", id |-> id, name |-> name, input |-> "{}"]

\* a message of the history: content is a str (form "str", in text) or a
\* list of blocks (form "list", in blocks)
StrMessage(role, text) == [role |-> role, form |-> "str", text |-> text, blocks |-> <<>>]
ListMessage(role, blocks) == [role |-> role, form |-> "list", text |-> "", blocks |-> blocks]

\* a variant of add_user_message that overwrites the last message
add_user_message_overwrite(msgs, content) ==
    [msgs EXCEPT ![Len(msgs)] = ListMessage("user", content)]

\* Claude.add_user_message / add_assistant_message with a list or Message content
add_user_message(msgs, content) == Append(msgs, ListMessage("user", content))
\* a variant of add_assistant_message that keeps the text blocks only
add_assistant_message_text_only(msgs, response) ==
    Append(msgs, ListMessage("assistant", SelectSeq(response.content, LAMBDA b : b.type = "text")))

add_assistant_message(msgs, response) == Append(msgs, ListMessage("assistant", response.content))

\* a variant of text_from_message that joins with a space
text_from_message_spaced(message) ==
    JoinWith([i \in 1..Len(SelectSeq(message.content, LAMBDA b : b.type = "text"))
                 |-> SelectSeq(message.content, LAMBDA b : b.type = "text")[i].text], " ")

\* Claude.text_from_message
text_from_message(message) ==
    JoinWith([i \in 1..Len(SelectSeq(message.content, LAMBDA b : b.type = "text"))
                 |-> SelectSeq(message.content, LAMBDA b : b.type = "text")[i].text], "\n")

NoResponse == [content |-> <<>>, stop_reason |-> "none"]

---------------------------------------------------------------------------
(* The gateway (Claude.chat): responses are chosen by the environment *)

\* what a content block of a response may be: a text, or a request for a tool
BlockKinds == {[type |-> "text", v |-> x] : x \in Texts}
                \cup {[type |-> "tool_use", v |-> n] : n \in RequestNames}
Shapes == UNION {[1..n -> BlockKinds] : n \in 0..MaxBlocks}

\* a use of a tool that the gateway side executes itself (the web search): the
\* block is of type server_tool_use, and its id is none of the tool-use ids
ServerToolUseBlock(name) == [type |-> "server_tool_use", id |-> 0, name |-> name, input |-> "{}"]
\* the block kinds and shapes of responses that may hold a web search
SearchBlockKinds == BlockKinds \cup {[type |-> "server_tool_use", v |-> "web_search"]}
SearchShapes == UNION {[1..n -> SearchBlockKinds] : n \in 0..MaxBlocks}

\* the blocks of a response of shape sh; tool-use ids are fresh, from id0 on
ResponseContent(sh, id0) ==
    [i \in 1..Len(sh) |->
        IF sh[i].type = "text" THEN TextBlock(sh[i].v)
        ELSE IF sh[i].type = "server_tool_use" THEN ServerToolUseBlock(sh[i].v)
        ELSE ToolUseBlock(id0 + Cardinality({j \in 1..(i-1) : sh[j].type = "tool_use"}), sh[i].v)]
NumToolUse(sh) == Cardinality({j \in 1..Len(sh) : sh[j].type = "tool_use"})

---------------------------------------------------------------------------
(* The dispatcher's pure parts (src/src/core/tools.py) *)

\* json.dumps of a str without characters that need escaping
JsonStr(s) == "\"" \o s \o "\""
\* json.dumps of a list of such strs
JsonList(strs) == "[" \o JoinWith([i \in 1..Len(strs) |-> JsonStr(strs[i])], ", ") \o "]"
\* json.dumps({"error": s})
JsonErrorObject(s) == "{\"error\": " \o JsonStr(s) \o "}"

\* a variant of tool_requests_of that takes every block that names a tool
tool_requests_any_use(message) ==
    SelectSeq(message.content, LAMBDA b : b.type \in {"tool_use", "server_tool_use"})

\* execute_tool_requests, lines 78-80
tool_requests_of(message) == SelectSeq(message.content, LAMBDA b : b.type = "tool_use")

_build_tool_result_part(tool_use_id, text, status) ==
    [tool_use_id |-> tool_use_id, type |-> "tool_result", content |-> text,
     is_error |-> (status = "error")]

\* a variant of not_found_part that reports success
not_found_part_success(tool_request) ==
    [tool_use_id |-> tool_request.id, type |-> "tool_result",
     content |-> "Could not find that tool", is_error |-> FALSE]

\* execute_tool_requests, lines 97-102: no client lists the tool
NotFoundText == "Could not find that tool"
not_found_part(tool_request) ==
    _build_tool_result_part(tool_request.id, NotFoundText, "error")

\* a CallToolResult: content items and the server's error flag
TextContent(text) == [type |-> "text", text |-> text]
ImageContent == [type |-> "image", text |-> ""]
CallOutputs ==
    { [content |-> <<ImageContent, TextContent("r")>>, isError |-> FALSE],
      [content |-> <<TextContent("e")>>, isError |-> TRUE] }

\* a variant of success_part that reports success whatever the server's flag
success_part_ignoring_flag(tool_request, tool_output) ==
    [tool_use_id |-> tool_request.id, type |-> "tool_result",
     content |-> JsonList([i \in 1..Len(SelectSeq(tool_output.content, LAMBDA item : item.type = "text"))
                             |-> SelectSeq(tool_output.content, LAMBDA item : item.type = "text")[i].text]),
     is_error |-> FALSE]

\* execute_tool_requests, lines 108-121: the invocation returned tool_output
success_part(tool_request, tool_output) ==
    LET items == tool_output.content
        texts == SelectSeq(items, LAMBDA item : item.type = "text")
        content_list == [i \in 1..Len(texts) |-> texts[i].text]
    IN _build_tool_result_part(tool_request.id, JsonList(content_list),
                               IF tool_output.isError THEN "error" ELSE "success")

\* a variant of error_message_of that leaves the tool name out
error_message_unnamed(tool_name, e) == "Error executing tool: " \o e

\* execute_tool_requests, lines 122-129: the invocation raised e
error_message_of(tool_name, e) == "Error executing tool '" \o tool_name \o "': " \o e
raised_part(tool_request, e) ==
    _build_tool_result_part(tool_request.id,
                            JsonErrorObject(error_message_of(tool_request.name, e)), "error")

\* _find_client_with_tool, line 46-47: does the returned catalog list the name
lists_tool(tools, tool_name) == \E i \in DOMAIN tools : tools[i].name = tool_name

\* get_all_tools, lines 29-36: the descriptors added for one client's catalog
descriptors_of(tool_models) ==
    [i \in 1..Len(tool_models) |->
        [name |-> tool_models[i].name, description |-> tool_models[i].description,
         input_schema |-> tool_models[i].inputSchema]]

\* chat.py line 147: the catalog handed to the gateway
WEB_SEARCH_SCHEMA == [type |-> "web_search_20250305", name |-> "web_search",
                      max_uses |-> 5, allowed_domains |-> <<"google.com">>]
gateway_tools(mcp_tools) == <<WEB_SEARCH_SCHEMA>> \o mcp_tools

\* a variant of wants_tools that looks at the blocks instead of the stop reason
wants_tools_by_blocks(response) ==
    \E i \in DOMAIN response.content : response.content[i].type = "tool_use"

\* chat.py line 154: the branch of the turn loop
wants_tools(response) == response.stop_reason = "tool_use"

---------------------------------------------------------------------------
(* Queries and preprocessing (src/src/core/chat.py, lines 10-139) *)

\* a whitespace-separated token of a query, with what the str methods the code
\* applies give on it: startswith("@"), word[1:], word.replace("/", "")
Word(text, at, tail, bare) == [text |-> text, at |-> at, tail |-> tail, bare |-> bare]
\* a query: the raw str, raw.startswith("/") and raw.split()
Query(raw, slash, words) == [raw |-> raw, slash |-> slash, words |-> words]

QHi == Query("hi", FALSE, <<Word("hi", FALSE, "i", "hi")>>)
QMention == Query("@d1 @nope", FALSE,
                  <<Word("@d1", TRUE, "d1", "@d1"), Word("@nope", TRUE, "nope", "@nope")>>)
QCommand == Query("/format d1", TRUE,
                  <<Word("/format", FALSE, "format", "format"), Word("d1", FALSE, "1", "d1")>>)
\* a command whose first token holds a second "/"
QSlashes == Query("/a/b d1", TRUE,
                  <<Word("/a/b", FALSE, "a/b", "ab"), Word("d1", FALSE, "1", "d1")>>)
Queries == {QHi, QMention, QCommand, QSlashes}
NoQuery == Query("", FALSE, <<>>)

\* the id lists the docs://documents resource may return, and a document's content
DocIdLists == {<<"d2">>, <<"d2", "d1">>}
DocContents == {"R"}

\* a PromptMessage whose content is one content object
PromptMessage(role, type, text) == [role |-> role, content |-> [type |-> type, text |-> text]]
\* the message lists get_prompt may return
PromptResults ==
    { <<PromptMessage("user", "text", "P")>>,
      <<PromptMessage("user", "image", ""), PromptMessage("assistant", "text", "A")>> }

\* convert_prompt_message_to_message_param for a content object (not a list)
convert_prompt_message_to_message_param(prompt_message) ==
    LET role == IF prompt_message.role = "user" THEN "user" ELSE "assistant"
    IN IF prompt_message.content.type = "text"
       THEN StrMessage(role, prompt_message.content.text)
       ELSE StrMessage(role, "")

convert_prompt_messages_to_message_params(prompt_messages) ==
    [i \in 1..Len(prompt_messages) |->
        convert_prompt_message_to_message_param(prompt_messages[i])]

\* a variant of mentions_of that keeps the "@" of a mention
mentions_with_marker(query) ==
    {query.words[i].text : i \in {j \in DOMAIN query.words : query.words[j].at}}

\* _extract_resources, line 95
mentions_of(query) ==
    {query.words[i].tail : i \in {j \in DOMAIN query.words : query.words[j].at}}

\* _extract_resources, lines 102-105
document_block(doc) ==
    "\n<document id=\"" \o doc.id \o "\">\n" \o doc.content \o "\n</document>\n"
added_resources_of(mentioned_docs) ==
    Concat([i \in 1..Len(mentioned_docs) |-> document_block(mentioned_docs[i])])

\* a variant of prompt_of without the instructional wrapper
prompt_without_wrapper(query, added_resources) == query.raw \o added_resources

\* _process_query, lines 122-138
prompt_of(query, added_resources) ==
    "\nThe user has a question:\n<query>\n" \o query.raw
    \o "\n</query>\n\nThe following context may be useful in answering their question:\n<context>\n"
    \o added_resources
    \o "\n</context>\n\nNote the user's query might contain references to documents like \"@report.docx\". The \"@\" is only\nincluded as a way of mentioning the doc. The actual name of the document would be \"report.docx\".\nIf the document content is included in this prompt, you don't need to use an additional tool to read the document.\nAnswer the user's question directly and concisely. Start with the exact information they need.\nDon't refer to or mention the provided context in any way - just use it to inform your answer.\n"

\* a round trip to the resource collaborator: the method of doc_client and its
\* arguments
Call(op, args) == [op |-> op, args |-> args]
NoCall == Call("", <<>>)
\* _process_command, lines 111-114: doc_client.get_prompt(command, {"doc_id": words[1]})
get_prompt_call(query) ==
    Call("get_prompt", <<query.words[1].bare, "doc_id", query.words[2].text>>)
\* list_docs_ids, line 80, and get_doc_content, line 85
list_docs_call == Call("read_resource", <<"docs://documents">>)
get_doc_call(doc_id) == Call("read_resource", <<"docs://documents/" \o doc_id>>)

\* the first index after `from`, in doc_ids, of an id that is mentioned; 0 when none
next_mentioned(doc_ids, mentions, from) ==
    LET later == {i \in DOMAIN doc_ids : i > from /\ doc_ids[i] \in mentions}
    IN IF later = {} THEN 0 ELSE CHOOSE i \in later : \A j \in later : i <= j

---------------------------------------------------------------------------
(* The run() coroutine (src/src/core/chat.py, lines 141-168) *)

\* (awaiting, listed and returned are history fields: the round trip to the
\* resource collaborator that is in flight, the id list that the docs://documents
\* resource returned to the preprocessing that has just completed, and the
\* catalogs that the clients have returned to get_all_tools on this iteration of
\* the loop, each with the client that returned it)
IdleFrame ==
    [pc |-> "idle", self |-> 0, query |-> NoQuery,
     doc_ids |-> <<>>, di |-> 0, mentioned_docs |-> <<>>,
     mcp_tools |-> <<>>, tools |-> <<>>, ci |-> 0, response |-> NoResponse,
     k |-> 0, client |-> 0, tool_result_blocks |-> <<>>,
     ret |-> "", err |-> "", awaiting |-> NoCall, listed |-> <<>>, returned |-> <<>>]

\* run() is not executing: never called, returned, or raised
Resting(t) == frame[t].pc \in {"idle", "done", "raised"}

\* a variant of EnterLoop that keeps the catalog gathered on the last iteration
EnterLoopKeepingCatalog(f) ==
    [f EXCEPT !.pc = "list_tools", !.ci = 1, !.returned = <<>>,
              !.doc_ids = <<>>, !.di = 0, !.mentioned_docs = <<>>, !.awaiting = NoCall]

\* the frame on entering the `while True` loop, or on going round it: the locals of
\* the calls that returned are gone, get_all_tools asks the first client
EnterLoop(f) ==
    [f EXCEPT !.pc = "list_tools", !.ci = 1, !.mcp_tools = <<>>, !.returned = <<>>,
              !.doc_ids = <<>>, !.di = 0, !.mentioned_docs = <<>>, !.awaiting = NoCall]

\* the frame when run() raises: the locals are gone, the error is what is left
Raise(f, kind) == [IdleFrame EXCEPT !.pc = "raised", !.self = f.self, !.err = kind]

\* the frame when run() returns text: the locals are gone
Return(f, text) == [IdleFrame EXCEPT !.pc = "done", !.self = f.self, !.ret = text]

\* _process_query, line 139: the synthesized user message is appended
AppendPrompt(s, query, mentioned_docs) ==
    Append(messages[s], StrMessage("user", prompt_of(query, added_resources_of(mentioned_docs))))

\* run(query) is called on Chat s: lines 142-143 up to the first round trip
StartRun(t, s, q) ==
    /\ Resting(t)
    /\ Len(messages[s]) + 2 <= MaxHist
    /\ LET f == [IdleFrame EXCEPT !.self = s, !.query = q]
       IN IF doc_client[s] /\ q.slash /\ Len(q.words) >= 2
          THEN /\ frame' = [frame EXCEPT ![t] =
                     [f EXCEPT !.pc = "get_prompt", !.awaiting = get_prompt_call(q)]]
               /\ UNCHANGED messages
          ELSE IF doc_client[s]
          THEN /\ frame' = [frame EXCEPT ![t] =
                     [f EXCEPT !.pc = "list_docs", !.awaiting = list_docs_call]]
               /\ UNCHANGED messages
          ELSE /\ messages' = [messages EXCEPT ![s] = AppendPrompt(s, q, <<>>)]
               /\ frame' = [frame EXCEPT ![t] = EnterLoop(f)]
    /\ stop' = [stop EXCEPT ![t] = "none"]
    /\ seen' = [seen EXCEPT ![t] = <<>>]
    /\ calls' = [calls EXCEPT ![t] = <<>>]
    /\ UNCHANGED <<doc_client, clients, idCtr>>

\* run(query) is called on a Chat that stands by itself
Run(t, s, q) == StartRun(t, s, q) /\ UNCHANGED scopeVars

\* _process_command, lines 114-116: get_prompt returned prompt_messages
GetPromptReturns(t, prompt_messages) ==
    LET f == frame[t]  s == f.self
    IN /\ f.pc = "get_prompt"
       /\ Len(messages[s]) + Len(prompt_messages) + 1 <= MaxHist
       /\ messages' = [messages EXCEPT ![s] =
                          @ \o convert_prompt_messages_to_message_params(prompt_messages)]
       /\ frame' = [frame EXCEPT ![t] = EnterLoop(f)]
       /\ UNCHANGED <<doc_client, clients, idCtr, stop, seen, calls, scopeVars>>

\* _extract_resources, lines 96-101, after a round trip: go on to the next
\* mentioned id, or build and append the prompt
ContinueExtract(t, f, doc_ids, from, mentioned_docs) ==
    LET s == f.self
        nxt == next_mentioned(doc_ids, mentions_of(f.query), from)
    IN IF nxt # 0
       THEN /\ frame' = [frame EXCEPT ![t] =
                  [f EXCEPT !.pc = "get_doc", !.doc_ids = doc_ids, !.di = nxt,
                            !.mentioned_docs = mentioned_docs,
                            !.awaiting = get_doc_call(doc_ids[nxt])]]
            /\ UNCHANGED messages
       ELSE /\ messages' = [messages EXCEPT ![s] = AppendPrompt(s, f.query, mentioned_docs)]
            /\ frame' = [frame EXCEPT ![t] =
                  [EnterLoop([f EXCEPT !.doc_ids = doc_ids, !.mentioned_docs = mentioned_docs])
                      EXCEPT !.listed = doc_ids]]

\* _extract_resources, line 96: list_docs_ids returned doc_ids
ListDocsReturns(t, doc_ids) ==
    /\ frame[t].pc = "list_docs"
    /\ ContinueExtract(t, frame[t], doc_ids, 0, <<>>)
    /\ UNCHANGED <<doc_client, clients, idCtr, stop, seen, calls, scopeVars>>

\* _extract_resources, lines 100-101: get_doc_content returned content
GetDocReturns(t, content) ==
    LET f == frame[t]
    IN /\ f.pc = "get_doc"
       /\ ContinueExtract(t, f, f.doc_ids, f.di,
                          Append(f.mentioned_docs, [id |-> f.doc_ids[f.di], content |-> content]))
       /\ UNCHANGED <<doc_client, clients, idCtr, stop, seen, calls, scopeVars>>

\* a variant of PreprocessRaises that appends the user message with what was
\* fetched before the failure
PreprocessRaisesPartial(t) ==
    /\ frame[t].pc \in {"get_prompt", "list_docs", "get_doc"}
    /\ messages' = [messages EXCEPT ![frame[t].self] =
                       AppendPrompt(frame[t].self, frame[t].query, frame[t].mentioned_docs)]
    /\ frame' = [frame EXCEPT ![t] = Raise(@, "preprocess")]
    /\ UNCHANGED <<doc_client, clients, idCtr, stop, seen, calls, scopeVars>>

\* a round trip of preprocessing raises (get_prompt, read_resource): run() raises
PreprocessRaises(t) ==
    /\ frame[t].pc \in {"get_prompt", "list_docs", "get_doc"}
    /\ frame' = [frame EXCEPT ![t] = Raise(@, "preprocess")]
    /\ UNCHANGED <<messages, doc_client, clients, idCtr, stop, seen, calls, scopeVars>>

\* get_all_tools, lines 27-37: list_tools of client ci returned tool_models; after
\* the last client, chat.py line 147 builds the catalog for the gateway
ListToolsReturns(t, tool_models) ==
    LET f == frame[t]
        mcp_tools == f.mcp_tools \o descriptors_of(tool_models)
        g == [f EXCEPT !.mcp_tools = mcp_tools, !.listed = <<>>,
                       !.returned = Append(@, [client |-> f.ci, tools |-> tool_models])]
    IN /\ f.pc = "list_tools"
       /\ frame' = [frame EXCEPT ![t] =
             IF f.ci < NumClients(f.self)
             THEN [g EXCEPT !.ci = f.ci + 1]
             ELSE [g EXCEPT !.pc = "chat", !.tools = gateway_tools(mcp_tools)]]
       /\ seen' = [seen EXCEPT ![t] = <<>>]
       /\ calls' = [calls EXCEPT ![t] = <<>>]
       /\ UNCHANGED <<messages, doc_client, clients, idCtr, stop, scopeVars>>

\* get_all_tools, line 28: list_tools raises, and so does run()
ListToolsRaises(t) ==
    /\ frame[t].pc = "list_tools"
    /\ frame' = [frame EXCEPT ![t] = Raise(@, "catalog")]
    /\ seen' = [seen EXCEPT ![t] = <<>>]
    /\ calls' = [calls EXCEPT ![t] = <<>>]
    /\ UNCHANGED <<messages, doc_client, clients, idCtr, stop, scopeVars>>

\* a variant of first_client that skips the first registered client
second_client == 2

\* _find_client_with_tool, line 44: iteration starts at the first registered client
first_client == 1

\* execute_tool_requests, lines 88-95: the frame on turning to request k
StartRequest(f, k) ==
    [f EXCEPT !.pc = "find_client", !.k = k, !.ci = first_client, !.client = 0]

\* chat.py lines 148-168: the gateway returned a response of shape sh with stop reason sr.
\* It is appended; then either the requests are dispatched (up to the first round
\* trip), or run() returns the text.
ChatReturns(t, sh, sr) ==
    LET f == frame[t]  s == f.self
        response == [content |-> ResponseContent(sh, idCtr), stop_reason |-> sr]
        appended == add_assistant_message(messages[s], response)
        g == [f EXCEPT !.response = response, !.tool_result_blocks = <<>>]
    IN /\ f.pc = "chat"
       /\ sr = "tool_use" => Len(messages[s]) + 3 <= MaxHist
       /\ idCtr' = idCtr + NumToolUse(sh)
       /\ IF wants_tools(response)
          THEN IF tool_requests_of(response) = <<>>
               THEN /\ messages' = [messages EXCEPT ![s] = add_user_message(appended, <<>>)]
                    /\ frame' = [frame EXCEPT ![t] = EnterLoop(g)]
               ELSE /\ messages' = [messages EXCEPT ![s] = appended]
                    /\ frame' = [frame EXCEPT ![t] = StartRequest(g, 1)]
          ELSE /\ messages' = [messages EXCEPT ![s] = appended]
               /\ frame' = [frame EXCEPT ![t] = Return(g, text_from_message(response))]
       /\ stop' = [stop EXCEPT ![t] = sr]
       /\ UNCHANGED <<doc_client, clients, seen, calls, scopeVars>>

\* a variant of ChatRaises that leaves an assistant message for the failed call
ChatRaisesPartial(t) ==
    /\ frame[t].pc = "chat"
    /\ messages' = [messages EXCEPT ![frame[t].self] =
                       add_assistant_message(@, [content |-> <<>>, stop_reason |-> "error"])]
    /\ frame' = [frame EXCEPT ![t] = Raise(@, "gateway")]
    /\ UNCHANGED <<doc_client, clients, idCtr, stop, seen, calls, scopeVars>>

\* chat.py line 148: Claude.chat raises, and so does run()
ChatRaises(t) ==
    /\ frame[t].pc = "chat"
    /\ frame' = [frame EXCEPT ![t] = Raise(@, "gateway")]
    /\ UNCHANGED <<messages, doc_client, clients, idCtr, stop, seen, calls, scopeVars>>

\* a variant of append_part that puts the newest result first
append_part_front(blocks, part) == <<part>> \o blocks

\* execute_tool_requests, lines 101 and 131: tool_result_blocks.append(part)
append_part(blocks, part) == Append(blocks, part)

\* a variant of FinishRequest with the loop bounded: run() returns after the round
FinishRequestBounded(t, f, part) ==
    LET s == f.self
        blocks == Append(f.tool_result_blocks, part)
        g == [f EXCEPT !.tool_result_blocks = blocks]
    IN IF f.k < Len(SelectSeq(f.response.content, LAMBDA b : b.type = "tool_use"))
       THEN /\ frame' = [frame EXCEPT ![t] =
                  [g EXCEPT !.pc = "find_client", !.k = f.k + 1, !.ci = 1, !.client = 0]]
            /\ UNCHANGED messages
       ELSE /\ messages' = [messages EXCEPT ![s] = add_user_message(@, blocks)]
            /\ frame' = [frame EXCEPT ![t] = Return(g, "")]

\* execute_tool_requests, lines 101/131-132 and chat.py lines 159-161: the part of
\* request k is appended to the results; then the next request, or the results
\* become one user message and the loop goes round
FinishRequest(t, f, part) ==
    LET s == f.self
        blocks == append_part(f.tool_result_blocks, part)
        g == [f EXCEPT !.tool_result_blocks = blocks]
    IN IF f.k < Len(tool_requests_of(f.response))
       THEN /\ frame' = [frame EXCEPT ![t] = StartRequest(g, f.k + 1)]
            /\ UNCHANGED messages
       ELSE /\ messages' = [messages EXCEPT ![s] = add_user_message(@, blocks)]
            /\ frame' = [frame EXCEPT ![t] = EnterLoop(g)]

\* a variant of CurrentRequest that takes the requests from the last to the first
CurrentRequestReversed(f) ==
    tool_requests_of(f.response)[Len(tool_requests_of(f.response)) + 1 - f.k]

\* the request being dispatched
CurrentRequest(f) == tool_requests_of(f.response)[f.k]

\* a variant of FindClientReturns that resolves the request against the catalog
\* gathered for the gateway
FindClientCached(t, tools) ==
    LET f == frame[t]
        req == CurrentRequest(f)
        sn == Append(IF f.ci = first_client THEN <<>> ELSE seen[t],
                     [client |-> f.ci, tools |-> tools])
    IN /\ f.pc = "find_client"
       /\ seen' = [seen EXCEPT ![t] = sn]
       /\ IF lists_tool(f.mcp_tools, req.name)
          THEN /\ frame' = [frame EXCEPT ![t] = [f EXCEPT !.pc = "call_tool", !.client = f.ci]]
               /\ UNCHANGED messages
          ELSE FinishRequest(t, f, not_found_part(req))
       /\ UNCHANGED <<doc_client, clients, idCtr, stop, calls, scopeVars>>

\* _find_client_with_tool, lines 44-49: list_tools of client ci returned tools
FindClientReturns(t, tools) ==
    LET f == frame[t]
        req == CurrentRequest(f)
        sn == Append(IF f.ci = first_client THEN <<>> ELSE seen[t],
                     [client |-> f.ci, tools |-> tools])
    IN /\ f.pc = "find_client"
       /\ seen' = [seen EXCEPT ![t] = sn]
       /\ IF lists_tool(tools, req.name)
          THEN /\ frame' = [frame EXCEPT ![t] = [f EXCEPT !.pc = "call_tool", !.client = f.ci]]
               /\ UNCHANGED messages
          ELSE IF f.ci < NumClients(f.self)
          THEN /\ frame' = [frame EXCEPT ![t] = [f EXCEPT !.ci = f.ci + 1]]
               /\ UNCHANGED messages
          ELSE FinishRequest(t, f, not_found_part(req))
       /\ UNCHANGED <<doc_client, clients, idCtr, stop, calls, scopeVars>>

\* _find_client_with_tool, line 45: list_tools raises; nothing catches it
FindClientRaises(t) ==
    /\ frame[t].pc = "find_client"
    /\ frame' = [frame EXCEPT ![t] = Raise(@, "dispatch")]
    /\ UNCHANGED <<messages, doc_client, clients, idCtr, stop, seen, calls, scopeVars>>

\* what call_tool has returned when it has not returned
NoOutput == [content |-> <<>>, isError |-> FALSE]

\* execute_tool_requests, lines 83-86 and 105-107: the invocation that is made
\* (outcome, e, class and output are what became of it: class is the class of
\* what it raised, "Exception" for an instance of Exception)
Invocation(f, outcome, e) ==
    [id |-> CurrentRequest(f).id, name |-> CurrentRequest(f).name,
     input |-> CurrentRequest(f).input, client |-> f.client,
     progress_callback |-> "_noop_progress", outcome |-> outcome, e |-> e,
     class |-> IF outcome = "raised" THEN "Exception" ELSE "",
     output |-> NoOutput]

\* lines 105-121: call_tool on the selected client returned tool_output
CallToolReturns(t, tool_output) ==
    LET f == frame[t]
    IN /\ f.pc = "call_tool"
       /\ calls' = [calls EXCEPT ![t] =
                       Append(@, [Invocation(f, "returned", "") EXCEPT !.output = tool_output])]
       /\ FinishRequest(t, f, success_part(CurrentRequest(f), tool_output))
       /\ UNCHANGED <<doc_client, clients, idCtr, stop, seen, scopeVars>>

\* a variant of CallToolRaises that invokes the tool again
CallToolRaisesRetry(t, e) ==
    /\ frame[t].pc = "call_tool"
    /\ calls' = [calls EXCEPT ![t] = Append(@, Invocation(frame[t], "raised", e))]
    /\ UNCHANGED <<messages, frame, doc_client, clients, idCtr, stop, seen, scopeVars>>

\* lines 105-122: call_tool on the selected client raised an instance of class
\* cls with message e that is not an Exception; `except Exception` does not catch
\* it: execute_tool_requests raises it, and so does run()
CallToolAborts(t, cls, e) ==
    LET f == frame[t]
    IN /\ f.pc = "call_tool"
       /\ calls' = [calls EXCEPT ![t] =
                       Append(@, [Invocation(f, "raised", e) EXCEPT !.class = cls])]
       /\ frame' = [frame EXCEPT ![t] = Raise(f, "execute")]
       /\ UNCHANGED <<messages, doc_client, clients, idCtr, stop, seen, scopeVars>>

\* lines 122-129: call_tool on the selected client raised e, an Exception
CallToolRaises(t, e) ==
    LET f == frame[t]
    IN /\ f.pc = "call_tool"
       /\ calls' = [calls EXCEPT ![t] = Append(@, Invocation(f, "raised", e))]
       /\ FinishRequest(t, f, raised_part(CurrentRequest(f), e))
       /\ UNCHANGED <<doc_client, clients, idCtr, stop, seen, scopeVars>>

---------------------------------------------------------------------------
(* The capability client and its connection scope                          *)
(* (src/src/mcp_client.py lines 27-58, 140-149; src/src/app.py lines 61-68) *)

Scopes == 1..NumScopes

\* MCPClient.__init__, lines 35-40, with what the exit stack's contexts hold:
\* the subprocess transport (stdio_client) and the ClientSession
\* (log and users are history fields: the operations invoked on the client, each
\* with the caller's position at the time and with what became of it; the Chat
\* objects constructed with this client)
NewClient ==
    [_session |-> "None", _exit_stack |-> <<>>,
     transport |-> "none", session_ctx |-> "none", initialized |-> FALSE,
     cleanups |-> 0, log |-> <<>>, users |-> {}]

\* connect, lines 48-50: stdio_client is entered on the exit stack
enter_stdio(m) == [m EXCEPT !._exit_stack = Append(@, "stdio"), !.transport = "open"]

\* connect, lines 55-57: ClientSession is entered on the exit stack and kept
enter_session(m) ==
    [m EXCEPT !._exit_stack = Append(@, "session"), !.session_ctx = "open",
              !._session = "ClientSession"]

\* AsyncExitStack.aclose, line 141: the contexts are exited from the last entered
\* to the first, each exit is awaited; this is the exit that is awaited next
exiting(m) ==
    IF m._exit_stack = <<>> THEN "" ELSE m._exit_stack[Len(m._exit_stack)] \o "_exit"

\* the exit of the context entered last has ended, by return or by an exception:
\* the context is no longer entered
exit_context(m) ==
    LET last == m._exit_stack[Len(m._exit_stack)]
    IN [m EXCEPT !._exit_stack = SubSeq(@, 1, Len(@) - 1),
                 !.transport = IF last = "stdio" THEN "closed" ELSE @,
                 !.session_ctx = IF last = "session" THEN "closed" ELSE @]

\* cleanup, line 142, and the return of cleanup(): reached when aclose() returned
\* (cleanups is a history field: the calls of cleanup() that returned)
cleanup_returns(m) == [m EXCEPT !._session = "None", !.cleanups = @ + 1]

\* the position of a scope: pc is where the caller's coroutine is, exc the
\* exception that connect() or the body raised; from and pending are of the
\* cleanup() underway or ended: the position it was called at, and the
\* exception that an exit raised
NewScope == [pc |-> "connect", exc |-> "", from |-> "", pending |-> ""]

\* `async with MCPClient(...)`: __aenter__ awaits connect(); connect, line 48,
\* spawned the server subprocess
StdioEntered(c) ==
    /\ scope[c].pc = "connect"
    /\ mcp' = [mcp EXCEPT ![c] = enter_stdio(@)]
    /\ scope' = [scope EXCEPT ![c].pc = "enter_session"]
    /\ UNCHANGED chatVars

\* connect, line 48, raises: __aenter__ raises, so the with statement raises
\* without calling __aexit__
StdioRaises(c) ==
    /\ scope[c].pc = "connect"
    /\ scope' = [scope EXCEPT ![c].pc = "raised", ![c].exc = "spawn"]
    /\ UNCHANGED <<mcp, chatVars>>

\* connect, lines 55-57
SessionEntered(c) ==
    /\ scope[c].pc = "enter_session"
    /\ mcp' = [mcp EXCEPT ![c] = enter_session(@)]
    /\ scope' = [scope EXCEPT ![c].pc = "initialize"]
    /\ UNCHANGED chatVars

SessionRaises(c) ==
    /\ scope[c].pc = "enter_session"
    /\ scope' = [scope EXCEPT ![c].pc = "raised", ![c].exc = "session"]
    /\ UNCHANGED <<mcp, chatVars>>

\* connect, line 58: the initialize handshake completed; __aenter__ returns self
\* and the body of the with statement runs
InitializeReturns(c) ==
    /\ scope[c].pc = "initialize"
    /\ mcp' = [mcp EXCEPT ![c].initialized = TRUE]
    /\ scope' = [scope EXCEPT ![c].pc = "body"]
    /\ UNCHANGED chatVars

\* connect, line 58: the handshake raises; __aenter__ raises, so the with
\* statement raises without calling __aexit__
InitializeRaises(c) ==
    /\ scope[c].pc = "initialize"
    /\ scope' = [scope EXCEPT ![c].pc = "raised", ![c].exc = "initialize"]
    /\ UNCHANGED <<mcp, chatVars>>

\* the position when cleanup() has ended. Called by the caller, it returned
\* ("released") or raised what aclose() raised ("cleanup_raised"). Called by
\* __aexit__, lines 148-149, its exception leaves the with statement; when it
\* returned, the body's result or exception does
EndOfCleanup(sc) ==
    IF sc.from = "aexit"
    THEN [sc EXCEPT !.pc = IF sc.pending = "" /\ sc.exc = "" THEN "returned" ELSE "raised",
                    !.exc = IF sc.pending # "" THEN sc.pending ELSE @]
    ELSE [sc EXCEPT !.pc = IF sc.pending = "" THEN "released" ELSE "cleanup_raised"]

\* cleanup(), lines 140-141, is called by a coroutine whose position becomes sc:
\* aclose() with nothing entered returns at once, and so does cleanup();
\* otherwise the coroutine is suspended in the exit of the context entered last
BeginCleanup(c, sc) ==
    IF mcp[c]._exit_stack = <<>>
    THEN /\ mcp' = [mcp EXCEPT ![c] = cleanup_returns(@)]
         /\ scope' = [scope EXCEPT ![c] = EndOfCleanup(sc)]
    ELSE /\ scope' = [scope EXCEPT ![c] = [sc EXCEPT !.pc = exiting(mcp[c])]]
         /\ UNCHANGED mcp

\* aclose(), line 141, after the exit that was awaited has ended, with pending the
\* exception to propagate: the next context is exited; after the last, aclose()
\* returns and line 142 runs, or aclose() raises and line 142 is skipped
ContinueCleanup(c, pending) ==
    LET m == exit_context(mcp[c])
        sc == [scope[c] EXCEPT !.pending = pending]
    IN IF m._exit_stack # <<>>
       THEN /\ mcp' = [mcp EXCEPT ![c] = m]
            /\ scope' = [scope EXCEPT ![c] = [sc EXCEPT !.pc = exiting(m)]]
       ELSE /\ mcp' = [mcp EXCEPT ![c] = IF pending = "" THEN cleanup_returns(m) ELSE m]
            /\ scope' = [scope EXCEPT ![c] = EndOfCleanup(sc)]

\* the positions of a coroutine suspended in cleanup()
InCleanup == {"session_exit", "stdio_exit"}

\* the exit of a context, awaited by aclose(), returns
ExitReturns(c) ==
    /\ scope[c].pc \in InCleanup
    /\ ContinueCleanup(c, scope[c].pending)
    /\ UNCHANGED chatVars

\* the exit of a context, awaited by aclose(), raises: the exit stack goes on with
\* the contexts that are left and raises the exception in the end
ExitRaises(c) ==
    /\ scope[c].pc \in InCleanup
    /\ ContinueCleanup(c, scope[c].pc)
    /\ UNCHANGED chatVars

\* app.py lines 65-68: the body ends, by return or by an exception (exc); the
\* with statement calls __aexit__, which awaits cleanup()
BodyEnds(c, exc) ==
    /\ scope[c].pc = "body"
    /\ BeginCleanup(c, [scope[c] EXCEPT !.exc = exc, !.from = "aexit"])
    /\ UNCHANGED chatVars

---------------------------------------------------------------------------
(* The capability client driven through its methods, without the with       *)
(* statement (src/src/mcp_client.py lines 42-93, 140-142)                   *)

\* most operations invoked on one client in the model
MaxOps == 2
\* the clients driven through their methods
ApiClients == {1}
\* list_tools, list_prompts, get_prompt, read_resource, call_tool: each starts
\* with self.session()
Operations == {"list_tools", "list_prompts", "get_prompt", "read_resource", "call_tool"}
\* list_files, upload_file, delete_file, download_file, lines 119-138: each awaits
\* self.call_tool(name, arguments)
FileHelpers == {"list_files", "upload_file", "delete_file", "download_file"}
\* what a caller may pass as progress_callback
ProgressCallbacks == {"None", "_noop_progress"}

\* session(), lines 60-65: the handle, or ConnectionError when it is None
session(m) == IF m._session = "None" THEN "ConnectionError" ELSE m._session

\* what an operation does first, lines 69/82/85/89/93: self.session() raises, or
\* the request is sent on the ClientSession
operation_outcome(m) == IF session(m) = "ConnectionError" THEN "ConnectionError" ELSE "sent"

\* call_tool, lines 79-81: the keyword arguments handed to ClientSession.call_tool,
\* as the set of the pairs <<keyword, value>>
call_tool_kwargs(progress_callback) ==
    IF progress_callback # "None" THEN {<<"progress_callback", progress_callback>>} ELSE {}

\* the entry of the log for an operation invoked on client c
LogEntry(c, op, via, kwargs) ==
    [op |-> op, via |-> via, kwargs |-> kwargs, at |-> scope[c].pc, exc |-> scope[c].exc,
     outcome |-> operation_outcome(mcp[c])]

\* the caller calls connect(): it runs to the await of line 48
ConnectCalled(c) ==
    /\ scope[c].pc = "new"
    /\ scope' = [scope EXCEPT ![c].pc = "connect"]
    /\ UNCHANGED <<mcp, chatVars>>

\* a coroutine invokes operation op on the client, whatever the position of the
\* one that connects and cleans up: before connect(), while connect() or
\* cleanup() is suspended, after either ended; progress_callback is the keyword
\* argument of call_tool
OperationCalled(c, op, progress_callback) ==
    /\ Len(mcp[c].log) < MaxOps
    /\ op # "call_tool" => progress_callback = "None"
    /\ mcp' = [mcp EXCEPT ![c].log =
                  Append(@, LogEntry(c, op, "",
                                     IF op = "call_tool" THEN call_tool_kwargs(progress_callback)
                                     ELSE {}))]
    /\ UNCHANGED <<scope, chatVars>>

\* the caller invokes one of the file helpers, lines 119-138: call_tool is called
\* without a progress_callback
FileHelperCalled(c, helper) ==
    /\ Len(mcp[c].log) < MaxOps
    /\ mcp' = [mcp EXCEPT ![c].log =
                  Append(@, LogEntry(c, "call_tool", helper, call_tool_kwargs("None")))]
    /\ UNCHANGED <<scope, chatVars>>

\* the caller calls cleanup(), lines 140-142, on a client that never connected,
\* whose connect() returned, or whose connect() raised
CleanupCalled(c) ==
    /\ scope[c].pc \in {"new", "body", "raised"}
    /\ BeginCleanup(c, [scope[c] EXCEPT !.from = scope[c].pc])
    /\ UNCHANGED chatVars

---------------------------------------------------------------------------
(* The sequential specification: one Chat object, one run() at a time *)
SeqSessions == {1}

Init ==
    /\ messages = [s \in Sessions |-> <<>>]
    /\ doc_client \in {[s \in Sessions |-> b] : b \in BOOLEAN}
    /\ clients \in {[s \in Sessions |-> d] : d \in ClientDicts}
    /\ frame = [t \in Tasks |-> IdleFrame]
    /\ idCtr = 1
    /\ stop = [t \in Tasks |-> "none"]
    /\ seen = [t \in Tasks |-> <<>>]
    /\ calls = [t \in Tasks |-> <<>>]
    /\ mcp = [c \in 1..NumScopes |-> NewClient]
    /\ scope = [c \in 1..NumScopes |-> NewScope]

Step(t) ==
    \/ \E s \in SeqSessions, q \in Queries : Run(t, s, q)
    \/ \E pm \in PromptResults : GetPromptReturns(t, pm)
    \/ \E ids \in DocIdLists : ListDocsReturns(t, ids)
    \/ \E c \in DocContents : GetDocReturns(t, c)
    \/ PreprocessRaises(t)
    \/ \E tm \in Catalogs : ListToolsReturns(t, tm)
    \/ ListToolsRaises(t)
    \/ \E sh \in Shapes, sr \in StopReasons : ChatReturns(t, sh, sr)
    \/ ChatRaises(t)
    \/ \E tm \in Catalogs : FindClientReturns(t, tm)
    \/ FindClientRaises(t)
    \/ \E out \in CallOutputs : CallToolReturns(t, out)
    \/ \E e \in ErrorMessages : CallToolRaises(t, e)
    \/ \E cls \in AbortClasses, e \in ErrorMessages : CallToolAborts(t, cls, e)

Next == \E t \in SeqTasks : Step(t)

Spec == Init /\ [][Next]_vars

\* the steps of a run() in which the awaited round trip returns
Advance(t) ==
    \/ \E pm \in PromptResults : GetPromptReturns(t, pm)
    \/ \E ids \in DocIdLists : ListDocsReturns(t, ids)
    \/ \E c \in DocContents : GetDocReturns(t, c)
    \/ \E tm \in Catalogs : ListToolsReturns(t, tm)
    \/ \E sh \in Shapes, sr \in StopReasons : ChatReturns(t, sh, sr)
    \/ \E tm \in Catalogs : FindClientReturns(t, tm)
    \/ \E out \in CallOutputs : CallToolReturns(t, out)
    \/ \E e \in ErrorMessages : CallToolRaises(t, e)

NextReturning ==
    \E t \in SeqTasks :
        \/ \E s \in SeqSessions, q \in Queries : Run(t, s, q)
        \/ Advance(t)

\* every round trip to the gateway and to a capability server returns (call_tool
\* may still raise into the dispatcher's except clause), and a run() whose round
\* trip has returned is resumed by the event loop
SpecReturning ==
    Init /\ [][NextReturning]_vars /\ WF_vars(\E t \in SeqTasks : Advance(t))

---------------------------------------------------------------------------
(* The specification of the connection scopes *)

ScopeStep(c) ==
    \/ StdioEntered(c)
    \/ StdioRaises(c)
    \/ SessionEntered(c)
    \/ SessionRaises(c)
    \/ InitializeReturns(c)
    \/ InitializeRaises(c)
    \/ \E exc \in {"", "body"} : BodyEnds(c, exc)
    \/ ExitReturns(c)
    \/ ExitRaises(c)

NextScope == \E c \in Scopes : ScopeStep(c)

\* the connection scopes of src/src/app.py, one per request
SpecScope == Init /\ [][NextScope]_vars

---------------------------------------------------------------------------
(* The specification of a client driven through its methods *)

InitClient ==
    /\ messages = [s \in Sessions |-> <<>>]
    /\ doc_client = [s \in Sessions |-> TRUE]
    /\ clients = [s \in Sessions |-> AppClients]
    /\ frame = [t \in Tasks |-> IdleFrame]
    /\ idCtr = 1
    /\ stop = [t \in Tasks |-> "none"]
    /\ seen = [t \in Tasks |-> <<>>]
    /\ calls = [t \in Tasks |-> <<>>]
    /\ mcp = [c \in 1..NumScopes |-> NewClient]
    /\ scope = [c \in 1..NumScopes |-> [NewScope EXCEPT !.pc = "new"]]

ClientStep(c) ==
    \/ ConnectCalled(c)
    \/ StdioEntered(c)
    \/ StdioRaises(c)
    \/ SessionEntered(c)
    \/ SessionRaises(c)
    \/ InitializeReturns(c)
    \/ InitializeRaises(c)
    \/ \E op \in Operations, cb \in ProgressCallbacks : OperationCalled(c, op, cb)
    \/ \E helper \in FileHelpers : FileHelperCalled(c, helper)
    \/ CleanupCalled(c)
    \/ ExitReturns(c)
    \/ ExitRaises(c)

NextClient == \E c \in ApiClients : ClientStep(c)

SpecClient == InitClient /\ [][NextClient]_vars

---------------------------------------------------------------------------
(* The specification of concurrent requests: each call of _run_chat_turn      *)
(* (src/src/app.py lines 52-68) opens a client, constructs a Chat with it and *)
(* awaits one run(); the calls interleave at their suspension points          *)

\* the calls of _run_chat_turn: call h has scope h, constructs Chat h and
\* awaits run() h
Handlers == Tasks

\* the inputs of the round trips of concurrent requests
RequestQueries == {QHi, QMention}
RequestDocIdLists == {<<"d2", "d1">>}
RequestCatalogs == {<<Tool("a")>>}
RequestShapes == {sh \in Shapes : Len(sh) <= 1}

\* a variant of agent_client in which every call uses the client of the first
shared_client(h) == CHOOSE c \in Handlers : \A d \in Handlers : c <= d

\* app.py lines 64-67: the client bound by `as client` of this call is the one
\* handed to CliChat as doc_client and as clients["doc"]
agent_client(h) == h

\* app.py lines 65-68: the body of the with statement constructs the Chat on the
\* client and calls run(query), which runs to its first round trip
AgentRuns(h, q) ==
    /\ scope[h].pc = "body"
    /\ frame[h].pc = "idle"
    /\ StartRun(h, h, q)
    /\ mcp' = [mcp EXCEPT ![agent_client(h)].users = @ \cup {h}]
    /\ UNCHANGED scope

\* app.py line 68: run() returned or raised, and so does the body
RunEnds(h) ==
    /\ frame[h].pc \in {"done", "raised"}
    /\ BodyEnds(h, IF frame[h].pc = "done" THEN "" ELSE "body")

InitRequests ==
    /\ messages = [s \in Sessions |-> <<>>]
    /\ doc_client = [s \in Sessions |-> TRUE]
    /\ clients = [s \in Sessions |-> AppClients]
    /\ frame = [t \in Tasks |-> IdleFrame]
    /\ idCtr = 1
    /\ stop = [t \in Tasks |-> "none"]
    /\ seen = [t \in Tasks |-> <<>>]
    /\ calls = [t \in Tasks |-> <<>>]
    /\ mcp = [c \in 1..NumScopes |-> NewClient]
    /\ scope = [c \in 1..NumScopes |-> NewScope]

RequestStep(h) ==
    \/ StdioEntered(h)
    \/ StdioRaises(h)
    \/ SessionEntered(h)
    \/ SessionRaises(h)
    \/ InitializeReturns(h)
    \/ InitializeRaises(h)
    \/ \E q \in RequestQueries : AgentRuns(h, q)
    \/ \E ids \in RequestDocIdLists : ListDocsReturns(h, ids)
    \/ \E c \in DocContents : GetDocReturns(h, c)
    \/ PreprocessRaises(h)
    \/ \E tm \in RequestCatalogs : ListToolsReturns(h, tm)
    \/ ListToolsRaises(h)
    \/ \E sh \in RequestShapes, sr \in StopReasons : ChatReturns(h, sh, sr)
    \/ ChatRaises(h)
    \/ \E tm \in RequestCatalogs : FindClientReturns(h, tm)
    \/ FindClientRaises(h)
    \/ \E out \in CallOutputs : CallToolReturns(h, out)
    \/ \E e \in ErrorMessages : CallToolRaises(h, e)
    \/ \E cls \in AbortClasses, e \in ErrorMessages : CallToolAborts(h, cls, e)
    \/ RunEnds(h)
    \/ ExitReturns(h)
    \/ ExitRaises(h)

NextRequests == \E h \in Handlers : RequestStep(h)

SpecRequests == InitRequests /\ [][NextRequests]_vars

---------------------------------------------------------------------------
(* The specification of runs whose responses may hold web searches: a Chat   *)
(* without resource collaborator, one run() at a time                        *)

\* the catalogs of these runs: a server may list a tool named as the web search
SearchCatalogs == {<<Tool("a")>>, <<Tool("web_search"), Tool("a")>>}

InitSearch ==
    /\ messages = [s \in Sessions |-> <<>>]
    /\ doc_client = [s \in Sessions |-> FALSE]
    /\ clients \in {[s \in Sessions |-> d] : d \in ClientDicts}
    /\ frame = [t \in Tasks |-> IdleFrame]
    /\ idCtr = 1
    /\ stop = [t \in Tasks |-> "none"]
    /\ seen = [t \in Tasks |-> <<>>]
    /\ calls = [t \in Tasks |-> <<>>]
    /\ mcp = [c \in 1..NumScopes |-> NewClient]
    /\ scope = [c \in 1..NumScopes |-> NewScope]

SearchStep(t) ==
    \/ \E s \in SeqSessions : Run(t, s, QHi)
    \/ \E tm \in SearchCatalogs : ListToolsReturns(t, tm)
    \/ ListToolsRaises(t)
    \/ \E sh \in SearchShapes, sr \in StopReasons : ChatReturns(t, sh, sr)
    \/ ChatRaises(t)
    \/ \E tm \in SearchCatalogs : FindClientReturns(t, tm)
    \/ FindClientRaises(t)
    \/ \E out \in CallOutputs : CallToolReturns(t, out)
    \/ \E e \in ErrorMessages : CallToolRaises(t, e)
    \/ \E cls \in AbortClasses, e \in ErrorMessages : CallToolAborts(t, cls, e)

NextSearch == \E t \in SeqTasks : SearchStep(t)

SpecSearch == InitSearch /\ [][NextSearch]_vars

---------------------------------------------------------------------------
(* The specification of two run() calls on one Chat: both coroutines run on  *)
(* the Chat of SeqSessions and interleave at their suspension points          *)

SharedStep(t) ==
    \/ \E s \in SeqSessions : Run(t, s, QHi)
    \/ \E tm \in RequestCatalogs : ListToolsReturns(t, tm)
    \/ ListToolsRaises(t)
    \/ \E sh \in RequestShapes, sr \in StopReasons : ChatReturns(t, sh, sr)
    \/ ChatRaises(t)
    \/ \E tm \in RequestCatalogs : FindClientReturns(t, tm)
    \/ FindClientRaises(t)
    \/ \E out \in CallOutputs : CallToolReturns(t, out)
    \/ \E e \in ErrorMessages : CallToolRaises(t, e)
    \/ \E cls \in AbortClasses, e \in ErrorMessages : CallToolAborts(t, cls, e)

NextShared == \E t \in Tasks : SharedStep(t)

SpecShared == InitSearch /\ [][NextShared]_vars

---------------------------------------------------------------------------
(* The states of the turn loop, as positions of run() *)

\* AWAIT_MODEL: gathering the catalogs, calling the gateway
AwaitModel == {"list_tools", "chat"}
\* DISPATCH_TOOLS: resolving and invoking the requests of the last response
DispatchTools == {"find_client", "call_tool"}

\* a user message made of tool results
ToolResultMessage(m) == m.role = "user" /\ m.form = "list"
ToolUsesIn(blocks) == SelectSeq(blocks, LAMBDA b : b.type = "tool_use")
\* res answers asst: one result per tool-use block, in the same order, same ids
Answers(res, asst) ==
    /\ asst.role = "assistant"
    /\ asst.form = "list"
    /\ Len(res.blocks) = Len(ToolUsesIn(asst.blocks))
    /\ \A k \in DOMAIN res.blocks :
          /\ res.blocks[k].type = "tool_result"
          /\ res.blocks[k].tool_use_id = ToolUsesIn(asst.blocks)[k].id

---------------------------------------------------------------------------
(* C1 *)

C1_Paired ==
    \A s \in Sessions : \A i \in DOMAIN messages[s] :
        ToolResultMessage(messages[s][i]) =>
            i > 1 /\ Answers(messages[s][i], messages[s][i-1])

C1_OneMessagePerRound ==
    \A t \in Tasks :
        LET f == frame[t]  s == f.self
        IN f.pc \in DispatchTools =>
             /\ \/ messages'[s] = messages[s] /\ frame'[t].pc # "list_tools"
                \/ /\ Len(messages'[s]) = Len(messages[s]) + 1
                   /\ SubSeq(messages'[s], 1, Len(messages[s])) = messages[s]
                   /\ ToolResultMessage(messages'[s][Len(messages'[s])])
                   /\ frame'[t].pc = "list_tools"
             /\ (f.pc = "call_tool" /\ frame'[t].pc = "raised") =>
                   calls'[t][Len(calls'[t])].class \in AbortClasses

\* C1: in every state each user message of tool results immediately follows an
\* assistant message and answers its tool-use blocks one to one (same count, same
\* order, same ids); a dispatch round leaves the history alone until it ends by
\* appending exactly one such message, whether the invocations return or raise
\* an error (only what is not an Exception, a cancellation or an interrupt, ends
\* run() at an invocation).
C1_ToolResultsMirrorRequests == []C1_Paired /\ [][C1_OneMessagePerRound]_vars

\* a round of two requests has been answered by two results of different outcomes
C1_Witness ==
    \E s \in Sessions : \E i \in DOMAIN messages[s] :
        /\ ToolResultMessage(messages[s][i])
        /\ Len(messages[s][i].blocks) = 2
        /\ messages[s][i].blocks[1].is_error # messages[s][i].blocks[2].is_error

---------------------------------------------------------------------------
(* C2 *)

\* C2: a step in which the gateway call of run() fails makes run() raise and
\* leaves every history exactly as it was before the call: what was appended
\* earlier stays, nothing is appended for the failed call.
C2_GatewayFailureKeepsHistory ==
    [][\A t \in Tasks :
          (frame[t].pc = "chat" /\ frame'[t].pc = "raised") =>
              /\ frame'[t].err = "gateway"
              /\ messages' = messages]_vars

\* run() raised from the gateway after a dispatch round of the same run: the
\* history ends with that round's tool results
C2_Witness ==
    \E t \in Tasks :
        /\ frame[t].pc = "raised"
        /\ frame[t].err = "gateway"
        /\ Len(messages[frame[t].self]) = 3
        /\ ToolResultMessage(messages[frame[t].self][3])

---------------------------------------------------------------------------
(* C3 *)

\* C3: no failure that arises while a tool request is dispatched (resolving the
\* client or invoking the tool) makes run() raise.
C3_DispatchNeverRaises ==
    \A t \in Tasks : ~(frame[t].pc = "raised" /\ frame[t].err = "dispatch")

---------------------------------------------------------------------------
(* C4 *)

\* C4: when the scope of a client ends, by return or by an exception, after the
\* subprocess transport was acquired, the release path has run exactly once and
\* the transport is no longer acquired.
C4_ReleaseOnEveryExit ==
    \A c \in Scopes :
        (scope[c].pc \in {"returned", "raised"} /\ mcp[c].transport # "none") =>
            mcp[c].cleanups = 1 /\ mcp[c].transport = "closed"

---------------------------------------------------------------------------
(* C5 *)

\* the messages a step appends to the history of s
Added(s) == SubSeq(messages'[s], Len(messages[s]) + 1, Len(messages'[s]))

\* the step of t is one of the three places that append to the history of s
C5_AppendPoint(t, s) ==
    /\ frame'[t].self = s
    /\ \/ /\ frame[t].pc \in {"idle", "done", "raised", "get_prompt", "list_docs", "get_doc"}
          /\ \A i \in DOMAIN Added(s) : Added(s)[i].form = "str"
       \/ /\ frame[t].pc = "chat"
          /\ Added(s)[1].role = "assistant"
          /\ Len(Added(s)) = 1 \/ (Len(Added(s)) = 2 /\ ToolResultMessage(Added(s)[2]))
       \/ /\ frame[t].pc \in DispatchTools
          /\ Len(Added(s)) = 1
          /\ ToolResultMessage(Added(s)[1])

\* C5: in every step the history before is a prefix of the history after, and a
\* step that adds messages is user preprocessing, the appending of an assistant
\* response or the appending of a tool-result message.
C5_AppendOnly ==
    [][\A s \in Sessions :
          /\ IsPrefix(messages[s], messages'[s])
          /\ messages'[s] # messages[s] => \E t \in Tasks : C5_AppendPoint(t, s)]_vars

\* a second run() on the same Chat has returned: its prompt follows the first
\* run's answer
C5_Witness ==
    \E t \in Tasks :
        /\ frame[t].pc = "done"
        /\ Len(messages[frame[t].self]) = 4
        /\ messages[frame[t].self][2].role = "assistant"
        /\ messages[frame[t].self][3].form = "str"

---------------------------------------------------------------------------
(* C6 *)

LastMessage(s) == messages[s][Len(messages[s])]

C6_Step ==
    \A t \in Tasks :
        LET f == frame[t]  g == frame'[t]  s == f.self
        IN /\ (f.pc = "chat" /\ g.pc # "raised") =>
                 IF stop'[t] = "tool_use"
                 THEN \/ g.pc \in DispatchTools
                      \/ /\ g.pc = "list_tools"
                         /\ Len(messages'[s]) = Len(messages[s]) + 2
                         /\ ToolUsesIn(messages'[s][Len(messages[s]) + 1].blocks) = <<>>
                 ELSE /\ g.pc = "done"
                      /\ calls'[t] = calls[t]
                      /\ Len(messages'[s]) = Len(messages[s]) + 1
                      /\ messages'[s][Len(messages'[s])].role = "assistant"
           /\ f.pc \in DispatchTools => g.pc # "done"
           /\ (f.pc \in DispatchTools /\ messages'[s] # messages[s]) => g.pc = "list_tools"

\* C6: a successful gateway call is followed by DISPATCH_TOOLS exactly when the
\* stop reason is tool_use (a round without requests is over in the same step);
\* with any other stop reason run() returns without an invocation, whatever
\* blocks the response holds; a dispatch round never ends in DONE, and when it
\* has appended its results the loop is back in AWAIT_MODEL.
C6_StopReasonDecides == [][C6_Step]_vars

\* run() returned on a response that holds a tool-use block but whose stop
\* reason is not tool_use: nothing was dispatched
C6_Witness ==
    \E t \in Tasks :
        /\ frame[t].pc = "done"
        /\ stop[t] = "max_tokens"
        /\ ToolUsesIn(LastMessage(frame[t].self).blocks) # <<>>
        /\ calls[t] = <<>>

---------------------------------------------------------------------------
(* C7 *)

C7_ReturnsOnlyOnFinalAnswer ==
    \A t \in Tasks : frame[t].pc = "done" => stop[t] \in StopReasons \ {"tool_use"}

C7_Terminates ==
    \A t \in Tasks : (frame[t].pc \in AwaitModel \cup DispatchTools) ~> (frame[t].pc = "done")

\* C7: run() has returned only when the latest gateway response had a stop
\* reason other than tool_use, so no number of rounds ends the loop by itself;
\* and when every round trip returns, a run() in the turn loop reaches DONE once
\* the gateway answers with such a stop reason (in the model: at the latest when
\* the history is full).
C7_LoopEndsWithFinalAnswer == []C7_ReturnsOnlyOnFinalAnswer /\ C7_Terminates

\* run() returned after going through DISPATCH_TOOLS and a second gateway call
C7_Witness ==
    \E t \in Tasks :
        /\ frame[t].pc = "done"
        /\ Len(messages[frame[t].self]) = 4
        /\ ToolResultMessage(messages[frame[t].self][3])
        /\ messages[frame[t].self][3].blocks # <<>>

---------------------------------------------------------------------------
(* C8 *)

Lists(tools, n) == \E i \in DOMAIN tools : tools[i].name = n

\* every registered client was asked for its catalog and none lists n
NoneLists(s, sn, n) ==
    /\ Len(sn) = NumClients(s)
    /\ \A j \in DOMAIN sn : sn[j].client = j /\ ~Lists(sn[j].tools, n)

C8_Step ==
    \A t \in Tasks :
        LET f == frame[t]  g == frame'[t]  s == f.self
            req == ToolUsesIn(f.response.content)[f.k]
        IN (f.pc = "find_client" /\ g.pc # "raised" /\ NoneLists(s, seen'[t], req.name)) =>
              /\ calls'[t] = calls[t]
              /\ g.tool_result_blocks =
                    Append(f.tool_result_blocks,
                           [tool_use_id |-> req.id, type |-> "tool_result",
                            content |-> "Could not find that tool", is_error |-> TRUE])
              /\ IF f.k < Len(ToolUsesIn(f.response.content))
                 THEN g.pc = "find_client" /\ g.k = f.k + 1 /\ messages' = messages
                 ELSE /\ g.pc = "list_tools"
                      /\ messages'[s] = Append(messages[s], ListMessage("user", g.tool_result_blocks))

\* C8: when every registered client has returned a catalog without the requested
\* name, no invocation is made, the request gets the ToolResult {is_error: true,
\* content: "Could not find that tool"}, run() does not raise and goes on: to the
\* next request, or with the results appended to the next gateway call.
C8_NotFoundResult == [][C8_Step]_vars

\* a round whose only request was not found is over: no invocation, the results
\* are appended, the loop gathers catalogs for the next gateway call
C8_Witness ==
    \E t \in Tasks :
        /\ frame[t].pc = "list_tools"
        /\ Len(frame[t].tool_result_blocks) = 1
        /\ frame[t].tool_result_blocks[1].content = "Could not find that tool"
        /\ calls[t] = <<>>
        /\ NoneLists(frame[t].self, seen[t], "a")
        /\ LastMessage(frame[t].self).blocks = frame[t].tool_result_blocks

---------------------------------------------------------------------------
(* C9 *)

\* pieces of text that may stand around the tool name and the message
Fragments == {"", "Error executing tool '", "Error executing tool: ", "': ", ": ", "'"}

\* content is the JSON object {"error": v} where v holds name, then e
IsErrorJson(content, name, e) ==
    \E pre \in Fragments, mid \in Fragments, post \in Fragments :
        content = "{\"error\": \"" \o pre \o name \o mid \o e \o post \o "\"}"

C9_Parts ==
    \A t \in Tasks :
        frame[t].pc \in DispatchTools \cup {"list_tools"} =>
            \A j \in DOMAIN calls[t] :
                (calls[t][j].outcome = "raised" /\ calls[t][j].class = "Exception") =>
                    \E i \in DOMAIN frame[t].tool_result_blocks :
                        LET part == frame[t].tool_result_blocks[i]
                        IN /\ part.tool_use_id = calls[t][j].id
                           /\ part.is_error
                           /\ IsErrorJson(part.content, calls[t][j].name, calls[t][j].e)

C9_Step ==
    \A t \in Tasks :
        LET f == frame[t]  g == frame'[t]
        IN (f.pc = "call_tool" /\ calls'[t] # calls[t]
              /\ calls'[t][Len(calls'[t])].outcome = "raised"
              /\ calls'[t][Len(calls'[t])].class = "Exception") =>
              IF f.k < Len(ToolUsesIn(f.response.content))
              THEN g.pc = "find_client" /\ g.k = f.k + 1
              ELSE g.pc = "list_tools"

\* C9: an invocation that raised an error (an Exception) has, among the results
\* of its round, a ToolResult with its request's id, is_error = true and as
\* content the JSON object whose "error" field holds the tool name and the
\* error's message; the step does not make run() raise: the next request is
\* dispatched, or the round ends.
C9_RaisedInvocationBecomesResult == []C9_Parts /\ [][C9_Step]_vars

\* the first of two requests raised and the second is being dispatched
C9_Witness ==
    \E t \in Tasks :
        /\ frame[t].pc \in DispatchTools
        /\ frame[t].k = 2
        /\ Len(calls[t]) >= 1
        /\ calls[t][1].outcome = "raised"
        /\ calls[t][1].class = "Exception"
        /\ frame[t].tool_result_blocks[1].is_error

---------------------------------------------------------------------------
(* C10 *)

C10_Selected ==
    \A t \in Tasks :
        frame[t].pc = "call_tool" =>
            LET f == frame[t]
                n == ToolUsesIn(f.response.content)[f.k].name
            IN /\ f.client \in Clients(f.self)
               /\ Len(seen[t]) = f.client
               /\ \A j \in 1..f.client :
                     /\ seen[t][j].client = j
                     /\ j < f.client => ~Lists(seen[t][j].tools, n)
               /\ Lists(seen[t][f.client].tools, n)

C10_Invoked ==
    \A t \in Tasks :
        (frame[t].pc = "call_tool" /\ calls'[t] # calls[t]) =>
            /\ calls'[t] = Append(calls[t], calls'[t][Len(calls'[t])])
            /\ calls'[t][Len(calls'[t])].client = frame[t].client
            /\ calls'[t][Len(calls'[t])].name = ToolUsesIn(frame[t].response.content)[frame[t].k].name
            /\ calls'[t][Len(calls'[t])].id = ToolUsesIn(frame[t].response.content)[frame[t].k].id

\* C10: the client selected for a request named n is the first, in registration
\* order, whose catalog returned during this resolution lists n: every client
\* registered before it was asked and returned a catalog without n; the
\* invocation is made on the selected client.
C10_FirstListingClient == []C10_Selected /\ [][C10_Invoked]_vars

\* the second registered client was selected after the first returned a catalog
\* that holds another tool only
C10_Witness ==
    \E t \in Tasks :
        /\ frame[t].pc = "call_tool"
        /\ frame[t].client = 2
        /\ seen[t][1].tools = <<>>
        /\ Len(seen[t][2].tools) = 2

---------------------------------------------------------------------------
(* C11 *)

\* the caller's position is between the completed handshake and release
Ready(entry) == entry.at = "body"

\* C11: every operation invoked on a client reached the server exactly when it
\* was invoked after connect() and its initialize handshake completed and before
\* release; invoked at any other time (before connect, after a failed connect or
\* handshake, after release) it failed with a connection error.
C11_OperationsOnlyWhenReady ==
    \A c \in Scopes : \A i \in DOMAIN mcp[c].log :
        LET entry == mcp[c].log[i]
        IN  /\ entry.outcome = "sent" => Ready(entry)
            /\ ~Ready(entry) => entry.outcome = "ConnectionError"

---------------------------------------------------------------------------
(* C12 *)

\* the client holds no transport (subprocess) and no session handle
HoldsNothing(m) ==
    /\ m.transport # "open"
    /\ m.session_ctx # "open"
    /\ m._session = "None"
    /\ m._exit_stack = <<>>

\* cleanup() has ended: it returned, or it raised
Cleaned(c) == scope[c].pc \in {"released", "cleanup_raised"}

\* C12: cleanup() called on a client that never connected, or whose connect()
\* had raised, does not raise, and once cleanup() has ended the client holds no
\* transport, no subprocess and no session handle.
C12_ReleaseIsSafe ==
    \A c \in Scopes :
        /\ (Cleaned(c) /\ scope[c].from \in {"new", "raised"}) => scope[c].pc = "released"
        /\ Cleaned(c) => HoldsNothing(mcp[c])

---------------------------------------------------------------------------
(* C20 *)

\* C20: every tool invocation the capability client sends to the server carries
\* a progress callback, whether or not the caller supplied one.
C20_InvocationsCarryProgressSink ==
    \A c \in Scopes : \A i \in DOMAIN mcp[c].log :
        (mcp[c].log[i].op = "call_tool" /\ mcp[c].log[i].outcome = "sent") =>
            \E kw \in mcp[c].log[i].kwargs : kw[1] = "progress_callback"

---------------------------------------------------------------------------
(* C13 *)

\* the position of the request with tool-use id `id` among the requests reqs
PositionOf(reqs, id) == CHOOSE i \in DOMAIN reqs : reqs[i].id = id

\* while run() t dispatches request k, the results of requests 1..k-1 and only
\* those have been produced, in block order, and every invocation already made
\* belongs to one of them
C13_InOrder ==
    \A t \in Tasks :
        LET f == frame[t]
            reqs == tool_requests_of(f.response)
        IN f.pc \in DispatchTools =>
             /\ f.k \in 1..Len(reqs)
             /\ Len(f.tool_result_blocks) = f.k - 1
             /\ \A i \in 1..(f.k - 1) : f.tool_result_blocks[i].tool_use_id = reqs[i].id
             /\ \A i \in DOMAIN calls[t] :
                   /\ \E j \in 1..(f.k - 1) : reqs[j].id = calls[t][i].id
                   /\ \A j \in DOMAIN calls[t] :
                         i < j => PositionOf(reqs, calls[t][i].id) < PositionOf(reqs, calls[t][j].id)

\* a step makes at most one invocation, that of the request being dispatched
C13_OneInvocationPerStep ==
    \A t \in Tasks :
        calls'[t] # calls[t] /\ calls'[t] # <<>> =>
            /\ frame[t].pc = "call_tool"
            /\ Len(calls'[t]) = Len(calls[t]) + 1
            /\ SubSeq(calls'[t], 1, Len(calls[t])) = calls[t]
            /\ calls'[t][Len(calls'[t])].id = tool_requests_of(frame[t].response)[frame[t].k].id

\* C13: within one run() the tool requests of an assistant message are resolved
\* and invoked one after the other in block order: request k+1 is turned to only
\* when the result of request k has been produced, so no two invocations of one
\* run() are in flight together.
C13_SequentialDispatch == []C13_InOrder /\ [][C13_OneInvocationPerStep]_vars

\* the second request of a message is being invoked after the first was invoked
\* and answered
C13_Witness ==
    \E t \in Tasks :
        /\ frame[t].pc = "call_tool"
        /\ frame[t].k = 2
        /\ Len(calls[t]) = 1
        /\ calls[t][1].id = tool_requests_of(frame[t].response)[1].id
        /\ Len(frame[t].tool_result_blocks) = 1

---------------------------------------------------------------------------
(* C15 *)

\* the query of run() t is a command: it begins with "/" and has two tokens or more
IsCommand(q) == q.slash /\ Len(q.words) >= 2

\* C15 (the template resolved): while run() awaits the template of a command, the
\* round trip in flight is get_prompt for token 1 without its leading marker,
\* with the arguments {doc_id: token 2}.
C15_TemplateOfTokenOne ==
    \A t \in Tasks :
        frame[t].pc = "get_prompt" =>
            /\ IsCommand(frame[t].query)
            /\ frame[t].awaiting =
                  Call("get_prompt", <<frame[t].query.words[1].tail, "doc_id",
                                       frame[t].query.words[2].text>>)

\* C15 (what is appended): preprocessing of a command with a resource collaborator
\* makes no read_resource round trip and, when get_prompt returns, appends the
\* template's messages in their order and nothing else.
C15_OnlyTemplateAppended ==
    [][\A t \in Tasks :
          LET f == frame[t]  s == f.self
          IN /\ (Resting(t) /\ ~Resting(t)' /\ doc_client[frame'[t].self]
                    /\ IsCommand(frame'[t].query)) =>
                  (frame'[t].pc = "get_prompt" /\ messages' = messages)
             /\ f.pc = "get_prompt" =>
                  \/ frame'[t] = f /\ messages'[s] = messages[s]
                  \/ frame'[t].pc = "raised" /\ messages'[s] = messages[s]
                  \/ /\ frame'[t].pc = "list_tools"
                     /\ \E pm \in PromptResults :
                           /\ Len(Added(s)) = Len(pm)
                           /\ \A i \in DOMAIN pm :
                                 /\ Added(s)[i].role = pm[i].role
                                 /\ Added(s)[i].form = "str"
                                 /\ Added(s)[i].text =
                                       (IF pm[i].content.type = "text"
                                        THEN pm[i].content.text ELSE "")]_vars

---------------------------------------------------------------------------
(* C16 *)

\* the known ids, in the order of the id list, that the query mentions as @id
MentionedKnown(ids, q) ==
    SelectSeq(ids, LAMBDA d : \E j \in DOMAIN q.words : q.words[j].text = "@" \o d)

\* a document block of the context section
DocumentBlock(id, content) ==
    "\n<document id=\"" \o id \o "\">\n" \o content \o "\n</document>\n"

\* the synthesized user message for query q with context section ctx
Synthesized(q, ctx) ==
    StrMessage("user",
        "\nThe user has a question:\n<query>\n" \o q.raw
        \o "\n</query>\n\nThe following context may be useful in answering their question:\n<context>\n"
        \o ctx
        \o "\n</context>\n\nNote the user's query might contain references to documents like \"@report.docx\". The \"@\" is only\nincluded as a way of mentioning the doc. The actual name of the document would be \"report.docx\".\nIf the document content is included in this prompt, you don't need to use an additional tool to read the document.\nAnswer the user's question directly and concisely. Start with the exact information they need.\nDon't refer to or mention the provided context in any way - just use it to inform your answer.\n")

\* while a document is being fetched, it is a known mentioned id, and what was
\* fetched before are the known mentioned ids before it, in order
C16_Fetching ==
    \A t \in Tasks :
        LET f == frame[t]
            before == MentionedKnown(SubSeq(f.doc_ids, 1, f.di - 1), f.query)
        IN f.pc = "get_doc" =>
             /\ f.di \in DOMAIN f.doc_ids
             /\ MentionedKnown(<<f.doc_ids[f.di]>>, f.query) # <<>>
             /\ f.awaiting = Call("read_resource", <<"docs://documents/" \o f.doc_ids[f.di]>>)
             /\ Len(f.mentioned_docs) = Len(before)
             /\ \A i \in DOMAIN before : f.mentioned_docs[i].id = before[i]

\* the step that ends mention expansion appends one user message whose context
\* section is the document blocks of the known mentioned ids, one each, in the
\* order of the id list, with the contents fetched
C16_Step ==
    \A t \in Tasks :
        LET f == frame[t]  s == f.self
        IN (f.pc \in {"list_docs", "get_doc"} /\ frame'[t].pc = "list_tools") =>
             \E c \in DocContents :
                LET ids == frame'[t].listed
                    known == MentionedKnown(ids, f.query)
                    content(i) == IF i <= Len(f.mentioned_docs)
                                  THEN f.mentioned_docs[i].content ELSE c
                    ctx == Concat([i \in 1..Len(known) |-> DocumentBlock(known[i], content(i))])
                IN /\ ids \in DocIdLists
                   /\ f.pc = "get_doc" =>
                        ids = f.doc_ids /\ Len(known) = Len(f.mentioned_docs) + 1
                   /\ Added(s) = <<Synthesized(f.query, ctx)>>

\* C16: in mention mode the synthesized user message holds exactly one document
\* block for each known resource id the query mentions as @id, with that id and
\* the content fetched for it, and none for a mention that matches no known id;
\* such a mention does not keep preprocessing from completing.
C16_OneBlockPerKnownMention == []C16_Fetching /\ [][C16_Step]_vars

\* the message for "@d1 @nope" with d1 known holds the block of d1 alone
C16_Witness ==
    \E s \in Sessions :
        /\ messages[s] # <<>>
        /\ messages[s][1] = Synthesized(QMention, DocumentBlock("d1", "R"))

---------------------------------------------------------------------------
(* C17 *)

\* the query has no @token and does not begin with "/"
Plain(q) == ~q.slash /\ \A j \in DOMAIN q.words : ~q.words[j].at

\* the synthesized user message of query q whose context section holds nothing
EmptyContextMessage(q) ==
    StrMessage("user",
        "\nThe user has a question:\n<query>\n" \o q.raw
        \o "\n</query>\n\nThe following context may be useful in answering their question:\n<context>\n\n</context>\n\nNote the user's query might contain references to documents like \"@report.docx\". The \"@\" is only\nincluded as a way of mentioning the doc. The actual name of the document would be \"report.docx\".\nIf the document content is included in this prompt, you don't need to use an additional tool to read the document.\nAnswer the user's question directly and concisely. Start with the exact information they need.\nDon't refer to or mention the provided context in any way - just use it to inform your answer.\n")

C17_Step ==
    \A t \in Tasks :
        LET f == frame[t]  g == frame'[t]  s == g.self
        IN /\ (Resting(t) /\ g.pc \notin {"idle", "done", "raised"} /\ Plain(g.query)) =>
                 IF doc_client[s]
                 THEN g.pc = "list_docs" /\ messages' = messages
                 ELSE g.pc = "list_tools" /\ Added(s) = <<EmptyContextMessage(g.query)>>
           /\ (f.pc = "list_docs" /\ Plain(f.query)) =>
                 \/ g = f /\ messages'[s] = messages[s]
                 \/ g.pc = "raised" /\ messages'[s] = messages[s]
                 \/ g.pc = "list_tools" /\ Added(s) = <<EmptyContextMessage(f.query)>>

\* C17: for a query with no @token and no leading "/", preprocessing fetches no
\* document and, when it completes, has appended exactly one user message: the
\* instructional wrapper around the query, with nothing in the context section.
C17_EmptyContextKeepsWrapper == [][C17_Step]_vars

\* a Chat with a resource collaborator preprocessed "hi"
C17_Witness ==
    \E s \in Sessions :
        /\ doc_client[s]
        /\ messages[s] # <<>>
        /\ messages[s][1] = EmptyContextMessage(QHi)

---------------------------------------------------------------------------
(* C18 *)

RECURSIVE TextsJoined(_)
\* the texts of the Text blocks of blocks, in order, with a newline between two
TextsJoined(blocks) ==
    IF blocks = <<>> THEN ""
    ELSE IF Head(blocks).type # "text" THEN TextsJoined(Tail(blocks))
    ELSE IF \A i \in DOMAIN Tail(blocks) : Tail(blocks)[i].type # "text" THEN Head(blocks).text
    ELSE Head(blocks).text \o "\n" \o TextsJoined(Tail(blocks))

C18_Step ==
    \A t \in Tasks :
        LET s == frame[t].self
            final == messages'[s][Len(messages'[s])]
        IN (frame[t].pc = "chat" /\ frame'[t].pc = "done") =>
             /\ final.role = "assistant"
             /\ final.form = "list"
             /\ Len(messages'[s]) = Len(messages[s]) + 1
             /\ frame'[t].ret = TextsJoined(final.blocks)

\* C18: when run() returns, the value returned is the texts of the Text blocks of
\* the assistant message just appended (the last message of the history), in
\* block order, joined by newline; other blocks and earlier assistant messages
\* contribute nothing.
C18_ReturnsFinalText == [][C18_Step]_vars

\* run() returned the two texts of the final message after a round whose
\* assistant message also held a text
C18_Witness ==
    \E t \in Tasks :
        LET s == frame[t].self
        IN /\ frame[t].pc = "done"
           /\ frame[t].ret = "T1\nT1"
           /\ Len(messages[s]) = 4
           /\ \E i \in DOMAIN messages[s][2].blocks : messages[s][2].blocks[i].type = "text"
           /\ ToolResultMessage(messages[s][3])

---------------------------------------------------------------------------
(* C19 *)

RECURSIVE TextSegments(_)
\* the text segments of a result's content items, quoted, with ", " between two
TextSegments(items) ==
    IF items = <<>> THEN ""
    ELSE IF Head(items).type # "text" THEN TextSegments(Tail(items))
    ELSE IF \A i \in DOMAIN Tail(items) : Tail(items)[i].type # "text"
         THEN "\"" \o Head(items).text \o "\""
    ELSE "\"" \o Head(items).text \o "\", " \o TextSegments(Tail(items))

C19_Parts ==
    \A t \in Tasks :
        frame[t].pc \in DispatchTools \cup {"list_tools"} =>
            \A j \in DOMAIN calls[t] :
                calls[t][j].outcome = "returned" =>
                    \E i \in DOMAIN frame[t].tool_result_blocks :
                        LET part == frame[t].tool_result_blocks[i]
                        IN /\ part.tool_use_id = calls[t][j].id
                           /\ part.type = "tool_result"
                           /\ part.is_error = calls[t][j].output.isError
                           /\ part.content = "[" \o TextSegments(calls[t][j].output.content) \o "]"

\* C19: an invocation that returned has, among the results of its round, a
\* ToolResult with its request's id whose is_error is the error flag of the
\* server's result and whose content is the JSON array of the result's text
\* segments in their order, the other segments left out.
C19_ReturnedInvocationBecomesResult == []C19_Parts

\* a round with a result flagged by the server and one that held a non-text segment
C19_Witness ==
    \E t \in Tasks :
        /\ frame[t].pc = "list_tools"
        /\ Len(calls[t]) = 2
        /\ calls[t][1].outcome = "returned" /\ calls[t][1].output.isError
        /\ calls[t][2].outcome = "returned" /\ Len(calls[t][2].output.content) = 2
        /\ frame[t].tool_result_blocks[1].is_error
        /\ frame[t].tool_result_blocks[2].content = "[\"r\"]"

---------------------------------------------------------------------------
(* C14 *)

\* run() t is between its call and its return or raise
Running(t) == ~Resting(t)

\* the clients that Chat s was constructed with
ClientsOf(s) == {c \in Scopes : s \in mcp[c].users}

\* no client is held by two Chat objects, and a running run() has one client,
\* whose connection is open
C14_OwnConnection ==
    /\ \A c \in Scopes : Cardinality(mcp[c].users) <= 1
    /\ \A t \in Tasks :
          Running(t) =>
              /\ Cardinality(ClientsOf(frame[t].self)) = 1
              /\ \A c \in ClientsOf(frame[t].self) :
                    /\ mcp[c].transport = "open"
                    /\ mcp[c]._session # "None"
                    /\ \A u \in Tasks : (u # t /\ Running(u)) => c \notin ClientsOf(frame[u].self)

\* a step of run() t appends to the history of its own Chat only
C14_OwnHistory ==
    \A t \in Tasks :
        frame'[t] # frame[t] =>
            \A s \in Sessions :
                messages'[s] # messages[s] =>
                    /\ s = frame'[t].self
                    /\ \A u \in Tasks : (u # t /\ frame[u].self # 0) => frame[u].self # s
                    /\ IsPrefix(messages[s], messages'[s])

\* C14: when the run() calls of different Chat objects interleave, a step of one
\* run changes the history of its own Chat only, and each running Chat has a
\* client of its own with an open connection that no other Chat was given.
C14_SessionsDoNotInterfere == []C14_OwnConnection /\ [][C14_OwnHistory]_vars

\* two runs are in their turn loops together, each with messages in its history
C14_Witness ==
    /\ \A t \in Tasks : frame[t].pc \in AwaitModel \cup DispatchTools
    /\ \A s \in Sessions : Len(messages[s]) >= 2
    /\ messages[1] # messages[2]

---------------------------------------------------------------------------
(* C21 *)

\* the descriptors of the tools of a catalog
Described(tm) ==
    [i \in DOMAIN tm |-> [name |-> tm[i].name, description |-> tm[i].description,
                          input_schema |-> tm[i].inputSchema]]

RECURSIVE Gathered(_, _)
\* the descriptors of the first n of the catalogs ret, one catalog after the
\* other, every entry kept
Gathered(ret, n) ==
    IF n = 0 THEN <<>> ELSE Gathered(ret, n - 1) \o Described(ret[n].tools)

\* the catalogs ret are those of the first n registered clients, in
\* registration order, one of each
OfFirstClients(ret, n) ==
    /\ Len(ret) = n
    /\ \A j \in DOMAIN ret : ret[j].client = j

\* the fixed web-search descriptor
WebSearchDescriptor ==
    [type |-> "web_search_20250305", name |-> "web_search", max_uses |-> 5,
     allowed_domains |-> <<"google.com">>]

\* C21: on every AWAIT_MODEL step the catalog is gathered anew: while client ci is
\* asked, what has been gathered is exactly what the ci-1 clients registered
\* before it returned on this iteration, catalog after catalog in registration
\* order; the catalog handed to the gateway is the fixed web-search descriptor
\* followed by what every registered client returned on this iteration, in
\* registration order.
C21_CatalogRebuiltEachStep ==
    \A t \in Tasks :
        LET f == frame[t]
        IN /\ f.pc = "list_tools" =>
                 /\ f.ci \in Clients(f.self)
                 /\ OfFirstClients(f.returned, f.ci - 1)
                 /\ f.mcp_tools = Gathered(f.returned, f.ci - 1)
           /\ f.pc = "chat" =>
                 /\ OfFirstClients(f.returned, NumClients(f.self))
                 /\ f.mcp_tools = Gathered(f.returned, NumClients(f.self))
                 /\ f.tools = <<WebSearchDescriptor>> \o f.mcp_tools

\* the gateway is called a second time in a run; on this iteration the first
\* client returned one tool and the second two others, and the catalog is the
\* web-search descriptor followed by the three, the first client's first
C21_Witness ==
    \E t \in Tasks :
        /\ frame[t].pc = "chat"
        /\ Len(messages[frame[t].self]) = 3
        /\ frame[t].returned = <<[client |-> 1, tools |-> <<Tool("a")>>],
                                 [client |-> 2, tools |-> <<Tool("b"), Tool("a")>>]>>
        /\ Len(frame[t].tools) = 4
        /\ frame[t].tools[1].name = "web_search"
        /\ frame[t].tools[2].name = "a"
        /\ frame[t].tools[3].name = "b"
        /\ frame[t].tools[4].name = "a"

---------------------------------------------------------------------------
(* C22 *)

\* the step in which the gateway call of run() t returns appends the response's
\* content blocks as one assistant message, before anything else
C22_Step ==
    \A t \in Tasks :
        LET f == frame[t]  g == frame'[t]  s == f.self
        IN (f.pc = "chat" /\ g # f /\ g.pc # "raised") =>
             /\ Len(Added(s)) >= 1
             /\ Added(s)[1].role = "assistant"
             /\ Added(s)[1].form = "list"
             /\ \E sh \in Shapes : Added(s)[1].blocks = ResponseContent(sh, idCtr)
             /\ \A i \in DOMAIN Added(s) : i > 1 => Added(s)[i].role # "assistant"
             /\ g.pc \in DispatchTools \cup {"done"} => Len(Added(s)) = 1
             /\ g.pc \in DispatchTools =>
                   /\ Added(s)[1].blocks = g.response.content
                   /\ g.tool_result_blocks = <<>>
                   /\ calls'[t] = <<>>

\* while the requests of a response are dispatched, the response is in the history
C22_Appended ==
    \A t \in Tasks :
        LET f == frame[t]  s == f.self
        IN f.pc \in DispatchTools =>
             /\ messages[s] # <<>>
             /\ messages[s][Len(messages[s])].role = "assistant"
             /\ messages[s][Len(messages[s])].blocks = f.response.content

\* C22: every gateway call that returns appends exactly one assistant message
\* holding the response's content blocks, with or without tool-use blocks, before
\* any request of the response is dispatched and before run() returns.
C22_ResponseAlwaysAppended == []C22_Appended /\ [][C22_Step]_vars

\* a response with a text and a tool request is in the history while its request
\* is being resolved
C22_Witness ==
    \E t \in Tasks :
        LET s == frame[t].self
        IN /\ frame[t].pc = "find_client"
           /\ frame[t].k = 1
           /\ Len(messages[s][Len(messages[s])].blocks) = 2
           /\ messages[s][Len(messages[s])].blocks[1].type = "text"
           /\ messages[s][Len(messages[s])].blocks[2].type = "tool_use"

---------------------------------------------------------------------------
(* C23 *)

\* the catalog cat, of tools or of descriptors, has an entry named n
Names(cat, n) == \E i \in DOMAIN cat : cat[i].name = n

\* the result parts that run() t holds after a step, whether the round goes on
\* or has ended
PartsAfter(t) == frame'[t].tool_result_blocks

\* a step of resolution decides by the catalog that the asked client has just
\* returned, whatever the catalog handed to the gateway held
C23_Step ==
    \A t \in Tasks :
        LET f == frame[t]  g == frame'[t]
            req == tool_requests_of(f.response)[f.k]
            fresh == seen'[t][Len(seen'[t])]
        IN (f.pc = "find_client" /\ g # f /\ g.pc # "raised") =>
             /\ seen'[t] # <<>>
             /\ fresh.client = f.ci
             /\ Names(fresh.tools, req.name) =>
                   g.pc = "call_tool" /\ g.client = f.ci /\ g.k = f.k
             /\ (~Names(fresh.tools, req.name) /\ f.ci < NumClients(f.self)) =>
                   g.pc = "find_client" /\ g.ci = f.ci + 1 /\ g.k = f.k
             /\ (~Names(fresh.tools, req.name) /\ f.ci = NumClients(f.self)) =>
                   /\ Len(PartsAfter(t)) = f.k
                   /\ PartsAfter(t)[f.k].content = "Could not find that tool"
                   /\ PartsAfter(t)[f.k].is_error
                   /\ calls'[t] = calls[t]

\* C23: each tool request is resolved against the catalogs fetched while it is
\* dispatched, never against the catalog gathered for the gateway: a tool no
\* client lists any more gets the not-found result, and a tool a client lists
\* now is invoked on that client, whatever the gateway was told.
C23_ResolvedAgainstFreshCatalogs == [][C23_Step]_vars

\* a tool the gateway was offered got the not-found result, and the next request
\* for it is about to be invoked on a client that lists it now
C23_Witness ==
    \E t \in Tasks :
        /\ frame[t].pc = "call_tool"
        /\ frame[t].k = 2
        /\ Names(frame[t].mcp_tools, "a")
        /\ frame[t].tool_result_blocks[1].content = "Could not find that tool"
        /\ calls[t] = <<>>

---------------------------------------------------------------------------
(* C24 *)

\* C24: whatever comes of the fetch of a mentioned document's content, run() does
\* not fail: the step that follows the fetch goes on with preprocessing (the next
\* mentioned document, or the user message appended), it never raises.
C24_MissingMentionNeverFails ==
    [][\A t \in Tasks :
          frame[t].pc = "get_doc" => frame'[t].pc \in {"get_doc", "list_tools"}]_vars

---------------------------------------------------------------------------
(* C25 *)

\* the result parts in the histories and in the frames
AllParts ==
    UNION {UNION {Range(messages[s][i].blocks) :
                     i \in {j \in DOMAIN messages[s] : ToolResultMessage(messages[s][j])}} :
              s \in Sessions}
    \cup UNION {Range(frame[t].tool_result_blocks) : t \in Tasks}

\* C25: a use of the web search is never dispatched: while a response is
\* dispatched the request in hand is one of its tool_use blocks, no catalog is
\* fetched and no invocation is made for the name "web_search", and no result
\* part answers a server_tool_use block.
C25_WebSearchNeverDispatched ==
    /\ \A t \in Tasks :
          LET f == frame[t]
              uses == SelectSeq(f.response.content, LAMBDA b : b.type = "tool_use")
          IN /\ f.pc \in DispatchTools =>
                   /\ f.k \in 1..Len(uses)
                   /\ uses[f.k].name # "web_search"
             /\ \A i \in DOMAIN calls[t] : calls[t][i].name # "web_search"
    /\ \A part \in AllParts : part.tool_use_id # ServerToolUseBlock("web_search").id

\* a response with a web search and a tool request was answered by one result
C25_Witness ==
    \E s \in Sessions :
        /\ Len(messages[s]) >= 3
        /\ Len(messages[s][2].blocks) = 2
        /\ messages[s][2].blocks[1].type = "server_tool_use"
        /\ messages[s][2].blocks[1].name = "web_search"
        /\ messages[s][2].blocks[2].type = "tool_use"
        /\ ToolResultMessage(messages[s][3])
        /\ Len(messages[s][3].blocks) = 1

---------------------------------------------------------------------------
(* C26 *)

\* the positions of run() at the round trips of preprocessing
Preprocessing == {"get_prompt", "list_docs", "get_doc"}

\* from the call of run() to the failure of a preprocessing round trip no step
\* changes a history, and no gateway call has been made
C26_Step ==
    \A t \in Tasks :
        LET f == frame[t]  g == frame'[t]
        IN /\ (Resting(t) /\ g.pc \in Preprocessing) =>
                 messages' = messages /\ stop'[t] = "none"
           /\ (f.pc \in Preprocessing /\ g.pc \in Preprocessing) =>
                 messages' = messages /\ stop'[t] = "none"
           /\ (f.pc \in Preprocessing /\ g.pc = "raised") =>
                 /\ messages' = messages
                 /\ g.err = "preprocess"
                 /\ stop'[t] = "none"
           /\ (f.pc \in Preprocessing /\ g.pc \notin Preprocessing \cup {"raised"}) =>
                 g.pc = "list_tools"

\* C26: when a round trip of preprocessing raises (the id listing, a content
\* fetch, the template rendering), run() raises with the history as it was when
\* run() was called and without a gateway call having been made.
C26_PreprocessFailureKeepsHistory == [][C26_Step]_vars

\* the second run() on a Chat failed in preprocessing: the history is the two
\* messages of the first run
C26_Witness ==
    \E t \in Tasks :
        /\ frame[t].pc = "raised"
        /\ frame[t].err = "preprocess"
        /\ stop[t] = "none"
        /\ Len(messages[frame[t].self]) = 2
        /\ messages[frame[t].self][2].role = "assistant"

---------------------------------------------------------------------------
(* C27 *)

\* C27: when run() has returned, every assistant message of the history that
\* holds tool-use blocks is immediately followed by a user message with one
\* result per tool-use block.
C27_NoRequestUnansweredOnReturn ==
    \A t \in Tasks :
        frame[t].pc = "done" =>
            LET h == messages[frame[t].self]
            IN \A i \in DOMAIN h :
                  (h[i].role = "assistant" /\ h[i].form = "list"
                      /\ ToolUsesIn(h[i].blocks) # <<>>) =>
                      /\ i < Len(h)
                      /\ ToolResultMessage(h[i + 1])
                      /\ Len(h[i + 1].blocks) = Len(ToolUsesIn(h[i].blocks))

---------------------------------------------------------------------------
(* C28 *)

\* C28: whenever run() is about to call the gateway, the history is not empty
\* and its last message has role user.
C28_GatewayGetsUserTurn ==
    \A t \in Tasks :
        frame[t].pc = "chat" =>
            /\ messages[frame[t].self] # <<>>
            /\ messages[frame[t].self][Len(messages[frame[t].self])].role = "user"

---------------------------------------------------------------------------
(* C29 *)

\* C29: the invocations of a dispatch round are of different requests of the
\* response, each on one registered client: no request is invoked twice, on one
\* client or on two, and a request that got the not-found result was not invoked.
C29_AtMostOneInvocationPerRequest ==
    \A t \in Tasks :
        LET f == frame[t]
            reqs == ToolUsesIn(f.response.content)
        IN /\ \A i \in DOMAIN calls[t] : \A j \in DOMAIN calls[t] :
                 calls[t][i].id = calls[t][j].id => i = j
           /\ \A i \in DOMAIN calls[t] : calls[t][i].client \in Clients(f.self)
           /\ f.pc \in DispatchTools \cup {"list_tools"} =>
                 /\ Len(calls[t]) <= Len(reqs)
                 /\ \A i \in DOMAIN calls[t] :
                       \E k \in DOMAIN reqs :
                           reqs[k].id = calls[t][i].id /\ reqs[k].name = calls[t][i].name
                 /\ \A k \in DOMAIN f.tool_result_blocks :
                       f.tool_result_blocks[k].content = "Could not find that tool" =>
                           \A i \in DOMAIN calls[t] :
                               calls[t][i].id # f.tool_result_blocks[k].tool_use_id

\* a round of two requests ended with one invocation, which raised, and one
\* request not found
C29_Witness ==
    \E t \in Tasks :
        /\ frame[t].pc = "list_tools"
        /\ Len(frame[t].tool_result_blocks) = 2
        /\ frame[t].tool_result_blocks[1].content = "Could not find that tool"
        /\ Len(calls[t]) = 1
        /\ calls[t][1].outcome = "raised"
        /\ calls[t][1].id = frame[t].tool_result_blocks[2].tool_use_id

---------------------------------------------------------------------------
(* C30 *)

\* C30: in the history of a Chat on which run() calls interleave, every message
\* of tool results comes right after an assistant message, and its results are
\* those of that message's tool-use blocks, one each, in order.
C30_ResultsFollowTheirRequests ==
    \A s \in Sessions :
        LET h == messages[s]
        IN \A i \in DOMAIN h :
              (h[i].role = "user" /\ h[i].form = "list") =>
                  /\ i > 1
                  /\ h[i - 1].role = "assistant"
                  /\ Len(h[i].blocks) = Len(ToolUsesIn(h[i - 1].blocks))
                  /\ \A k \in DOMAIN h[i].blocks :
                        h[i].blocks[k].tool_use_id = ToolUsesIn(h[i - 1].blocks)[k].id

====
